---- MODULE Spec2Model ----
(***************************************************************************)
(* Model of three parts of oxidd-viz:                                      *)
(*   - SelectionToolState.apply (state/toolbar/SelectionToolState.ts),     *)
(*   - the section buttons and modals of DiagramSummary                    *)
(*     (UI/views/diagramCollection/DiagramSummary.tsx),                    *)
(*   - the glyph vertex shader (unnamed/part_002).                         *)
(* Typed arrays (Uint32Array) are sequences of naturals.  Shader floats    *)
(* are exact rationals num/den plus tokens for the non-finite values.      *)
(***************************************************************************)
EXTENDS Integers, Sequences, FiniteSets, TLC

VARIABLES
    selection,            \* sharedState.selection / diagram.selectedNodes (global ids)
    highlight,            \* sharedState.highlight (global ids)
    last,                 \* the last tool event: its hits, its event, what apply did
    notification,         \* the last error surfaced to the host ("none" if none)
    sections,             \* diagram.sections: sequence of [ID, kind]
    nextID,               \* number of sections created so far
    diagramType,          \* diagram.type
    showDDDMPInputModal,  \* useState of DiagramSummary
    showBuddyInputModal,  \* useState of DiagramSummary
    rendered,             \* what the last render of DiagramSummary put on screen
    lastCreate,           \* the last create...().commit() of DiagramSummary
    glyph,                \* the vertex attributes of one glyph vertex
    time,                 \* uniform float time
    transform,            \* uniform mat4 transform (scale and translation)
    boundTextureIndex,    \* uniform int boundTextureIndex
    out,                  \* outputs of the last run of the vertex shader
    pass,                 \* the next texture page to draw in the current frame
    drawnCount            \* passes of the current frame that emitted the vertex in place

toolVars == <<selection, highlight, last, notification>>
uiVars == <<sections, nextID, diagramType, showDDDMPInputModal, showBuddyInputModal,
            rendered, lastCreate>>
shaderVars == <<glyph, time, transform, boundTextureIndex, out, pass, drawnCount>>
vars == <<toolVars, uiVars, shaderVars>>

(***************************************************************************)
(* Bounds                                                                  *)
(***************************************************************************)
MaxHits == 2        \* longest list of hit local ids handed to apply
MaxSections == 2    \* sections created over a run
MaxStart == 1       \* latest animation start time
MaxDuration == 2    \* longest animation duration
MaxTime == 4        \* latest value of the time uniform
NumPages == 2       \* texture pages drawn per frame

(***************************************************************************)
(* Section Index Mapper                                                    *)
(***************************************************************************)
\* The section's ordered global ids: local index i is Sources[i + 1].
Sources == <<3, 2>>

LocalIds == 0..Len(Sources)

RECURSIVE SeqsUpTo(_, _)
SeqsUpTo(S, n) ==
    IF n = 0 THEN {<<>>}
    ELSE LET shorter == SeqsUpTo(S, n - 1)
         IN shorter \cup {Append(s, x) : s \in {t \in shorter : Len(t) = n - 1}, x \in S}

\* drawer.local_nodes_to_sources(nodes): array indexing, MappingError when
\* a local index is out of range.
local_nodes_to_sources(nodes) ==
    IF \E i \in DOMAIN nodes : nodes[i] >= Len(Sources)
    THEN [ok |-> FALSE, val |-> <<>>]
    ELSE [ok |-> TRUE, val |-> [i \in DOMAIN nodes |-> Sources[nodes[i] + 1]]]

(***************************************************************************)
(* SelectionToolState                                                      *)
(***************************************************************************)
EventTypes == {"press", "drag", "release"}

\* event.event: absent, a mouse event, or a mouse event with ctrlKey set.
DomEvents == {"none", "mouse", "ctrl+mouse"}

\* IToolEvent
Events == [type : EventTypes, event : DomEvents]

\* Array.prototype.includes
includes(arr, n) == \E i \in DOMAIN arr : arr[i] = n

\* event.event?.ctrlKey
ctrl(event) == event.event = "ctrl+mouse"

\* [...selection.get().filter(n => !sourceNodes.includes(n)), ...sourceNodes]
merge(sel, sourceNodes) ==
    SelectSeq(sel, LAMBDA n : ~includes(sourceNodes, n)) \o sourceNodes

\* Mutant: a release merges whether or not ctrlKey is set.
apply_alwaysAdditive(sel, nodes, event) ==
    LET m == local_nodes_to_sources(nodes) IN
    IF ~m.ok THEN [threw |-> TRUE, commits |-> <<>>]
    ELSE IF event.type = "release"
         THEN [threw |-> FALSE,
               commits |-> <<[target |-> "selection", value |-> merge(sel, m.val)]>>]
         ELSE [threw |-> FALSE,
               commits |-> <<[target |-> "highlight", value |-> m.val]>>]

\* Mutant: a drag commits its hits to the selection as well as the highlight.
apply_dragSelects(sel, nodes, event) ==
    LET m == local_nodes_to_sources(nodes) IN
    IF ~m.ok THEN [threw |-> TRUE, commits |-> <<>>]
    ELSE IF event.type = "release"
         THEN LET sourceNodes == IF ctrl(event) THEN merge(sel, m.val) ELSE m.val
              IN [threw |-> FALSE,
                  commits |-> <<[target |-> "selection", value |-> sourceNodes]>>]
         ELSE IF event.type = "drag"
         THEN [threw |-> FALSE,
               commits |-> <<[target |-> "selection", value |-> merge(sel, m.val)]>>]
         ELSE [threw |-> FALSE,
               commits |-> <<[target |-> "highlight", value |-> m.val]>>]

\* Mutant: the highlight is cleared before the local ids are mapped.
apply_clearsFirst(sel, nodes, event) ==
    LET m == local_nodes_to_sources(nodes) IN
    IF ~m.ok THEN [threw |-> TRUE, commits |-> <<[target |-> "highlight", value |-> <<>>]>>]
    ELSE IF event.type = "release"
         THEN LET sourceNodes == IF ctrl(event) THEN merge(sel, m.val) ELSE m.val
              IN [threw |-> FALSE,
                  commits |-> <<[target |-> "selection", value |-> sourceNodes]>>]
         ELSE [threw |-> FALSE,
               commits |-> <<[target |-> "highlight", value |-> m.val]>>]

\* Mutant: an additive release commits the filtered old selection, then the
\* merged one.
apply_twoCommits(sel, nodes, event) ==
    LET m == local_nodes_to_sources(nodes) IN
    IF ~m.ok THEN [threw |-> TRUE, commits |-> <<>>]
    ELSE IF event.type = "release"
         THEN IF ctrl(event)
              THEN [threw |-> FALSE,
                    commits |-> <<[target |-> "selection",
                                   value |-> SelectSeq(sel, LAMBDA n : ~includes(m.val, n))],
                                  [target |-> "selection", value |-> merge(sel, m.val)]>>]
              ELSE [threw |-> FALSE,
                    commits |-> <<[target |-> "selection", value |-> m.val]>>]
         ELSE [threw |-> FALSE,
               commits |-> <<[target |-> "highlight", value |-> m.val]>>]

\* apply: the set(...).commit() calls it performs, in order, and whether
\* local_nodes_to_sources threw.
apply(sel, nodes, event) ==
    LET m == local_nodes_to_sources(nodes) IN
    IF ~m.ok THEN [threw |-> TRUE, commits |-> <<>>]
    ELSE IF event.type = "release"
         THEN LET sourceNodes == IF ctrl(event) THEN merge(sel, m.val) ELSE m.val
              IN [threw |-> FALSE,
                  commits |-> <<[target |-> "selection", value |-> sourceNodes]>>]
         ELSE [threw |-> FALSE,
               commits |-> <<[target |-> "highlight", value |-> m.val]>>]

\* The value of a shared set after a list of commits.
RECURSIVE after(_, _, _)
after(target, old, commits) ==
    IF commits = <<>> THEN old
    ELSE after(target,
               IF Head(commits).target = target THEN Head(commits).value ELSE old,
               Tail(commits))

NoEvent == [type |-> "press", event |-> "none"]

NoToolEvent ==
    [hits |-> local_nodes_to_sources(<<>>), event |-> NoEvent,
     threw |-> FALSE, commits |-> <<>>, applied |-> FALSE]

\* The command boundary around a tool call: a MappingError is caught and
\* surfaced to the host as a typed notification.
commandBoundary(r) == IF r.threw THEN "MappingError" ELSE "none"

\* One pointer event handed to the selection tool.
ToolEvent(nodes, event) ==
    LET r == apply(selection, nodes, event) IN
    /\ selection' = after("selection", selection, r.commits)
    /\ highlight' = after("highlight", highlight, r.commits)
    /\ last' = [hits |-> local_nodes_to_sources(nodes), event |-> event,
                threw |-> r.threw, commits |-> r.commits, applied |-> TRUE]
    /\ notification' = commandBoundary(r)

(***************************************************************************)
(* DiagramSummary                                                          *)
(*                                                                         *)
(* The handlers of the component run in its own click events, and the      *)
(* state they change is rendered when they return.  A selection committed  *)
(* by the tool reaches the component through useWatch and is rendered in   *)
(* a later step, Render.  diagram.selectedNodes is the shared selection.   *)
(***************************************************************************)
\* section instanceof FileSource
isFileSource(section) == section.kind = "FileSource"

\* watchableCanCreateFromFile
canCreateFromFile(secs) == ~\E i \in DOMAIN secs : isFileSource(secs[i])

\* What a render of DiagramSummary puts on the two kinds of buttons.
render(secs, sel) ==
    [canCreateFromFile |-> canCreateFromFile(secs),
     canCreateFromSelection |-> Len(sel) > 0]

NoCreate == [op |-> "none", nodes |-> <<>>, fileBefore |-> FALSE]

\* A re-render caused by a commit made outside the handlers of this
\* component (useWatch): the buttons are brought up to date.
Render ==
    /\ rendered # render(sections, selection)
    /\ rendered' = render(sections, selection)
    /\ UNCHANGED <<sections, nextID, diagramType, showDDDMPInputModal,
                   showBuddyInputModal, lastCreate>>

\* Click on "Load from dddump".
startCreatingDDDMPSection ==
    /\ rendered.canCreateFromFile
    /\ showDDDMPInputModal' = TRUE
    /\ UNCHANGED <<sections, nextID, diagramType, showBuddyInputModal, rendered,
                   lastCreate>>

\* Cancel of the DDDMP modal.
stopCreatingDDDMPSection ==
    /\ showDDDMPInputModal
    /\ showDDDMPInputModal' = FALSE
    /\ UNCHANGED <<sections, nextID, diagramType, showBuddyInputModal, rendered,
                   lastCreate>>

\* Select in the DDDMP modal: diagram.createSectionFromDDDMP(...).commit().
createDDDMPSection ==
    /\ showDDDMPInputModal
    /\ nextID < MaxSections
    /\ showDDDMPInputModal' = FALSE
    /\ sections' = Append(sections, [ID |-> nextID + 1, kind |-> "FileSource"])
    /\ nextID' = nextID + 1
    /\ lastCreate' = [op |-> "dddmp", nodes |-> <<>>,
                      fileBefore |-> ~canCreateFromFile(sections)]
    /\ rendered' = render(sections', selection)
    /\ UNCHANGED <<diagramType, showBuddyInputModal>>

\* Click on "Load from Buddy", a button MTBDD diagrams do not have.
startCreatingBuddySection ==
    /\ diagramType # "MTBDD"
    /\ rendered.canCreateFromFile
    /\ showBuddyInputModal' = TRUE
    /\ UNCHANGED <<sections, nextID, diagramType, showDDDMPInputModal, rendered,
                   lastCreate>>

\* Cancel of the Buddy modal.
stopCreatingBuddySection ==
    /\ showBuddyInputModal
    /\ showBuddyInputModal' = FALSE
    /\ UNCHANGED <<sections, nextID, diagramType, showDDDMPInputModal, rendered,
                   lastCreate>>

\* Select in the Buddy modal: diagram.createSectionFromBuddy(...).commit().
createBuddySection ==
    /\ showBuddyInputModal
    /\ nextID < MaxSections
    /\ showBuddyInputModal' = FALSE
    /\ sections' = Append(sections, [ID |-> nextID + 1, kind |-> "FileSource"])
    /\ nextID' = nextID + 1
    /\ lastCreate' = [op |-> "buddy", nodes |-> <<>>,
                      fileBefore |-> ~canCreateFromFile(sections)]
    /\ rendered' = render(sections', selection)
    /\ UNCHANGED <<diagramType, showDDDMPInputModal>>

\* Click on "Create from selection":
\* diagram.createSectionFromSelection(diagram.selectedNodes.get()).commit().
createSelectionSection ==
    /\ rendered.canCreateFromSelection
    /\ nextID < MaxSections
    /\ LET nodes == selection IN
       /\ sections' = Append(sections,
                             [ID |-> nextID + 1, kind |-> "NodeSelectionSource"])
       /\ lastCreate' = [op |-> "selection", nodes |-> nodes, fileBefore |-> FALSE]
    /\ nextID' = nextID + 1
    /\ rendered' = render(sections', selection)
    /\ UNCHANGED <<diagramType, showDDDMPInputModal, showBuddyInputModal>>

\* onDelete of a section summary: diagram.removeSection(section).commit().
removeSection(i) ==
    /\ sections' = SelectSeq(sections, LAMBDA sec : sec.ID # sections[i].ID)
    /\ rendered' = render(sections', selection)
    /\ UNCHANGED <<nextID, diagramType, showDDDMPInputModal, showBuddyInputModal,
                   lastCreate>>

\* The hit lists of the pointer events that reach the tool while the
\* summary is on screen: no node, or the node with local id 0.
UIHitLists == {<<>>, <<0>>}

UINext ==
    \/ startCreatingDDDMPSection /\ UNCHANGED <<toolVars, shaderVars>>
    \/ stopCreatingDDDMPSection /\ UNCHANGED <<toolVars, shaderVars>>
    \/ createDDDMPSection /\ UNCHANGED <<toolVars, shaderVars>>
    \/ startCreatingBuddySection /\ UNCHANGED <<toolVars, shaderVars>>
    \/ stopCreatingBuddySection /\ UNCHANGED <<toolVars, shaderVars>>
    \/ createBuddySection /\ UNCHANGED <<toolVars, shaderVars>>
    \/ createSelectionSection /\ UNCHANGED <<toolVars, shaderVars>>
    \/ \E i \in DOMAIN sections : removeSection(i) /\ UNCHANGED <<toolVars, shaderVars>>
    \/ Render /\ UNCHANGED <<toolVars, shaderVars>>
    \/ \E nodes \in UIHitLists, event \in Events :
          ToolEvent(nodes, event) /\ UNCHANGED <<uiVars, shaderVars>>

(***************************************************************************)
(* Glyph vertex shader                                                     *)
(***************************************************************************)
\* A finite float, as the exact rational num/den with den > 0.
Fin(n, d) == [kind |-> "fin", num |-> n, den |-> d]

NegInf == [kind |-> "neginf", num |-> 0, den |-> 1]

NaN == [kind |-> "nan", num |-> 0, den |-> 1]

\* A sampled value that is an infinity or a NaN.
NonFinite == [kind |-> "nonfinite", num |-> 0, den |-> 1]

\* What min(0.0 / 0.0, 1.0f) may evaluate to: GLSL ES 3.00 leaves 0/0 and
\* min of a NaN undefined, so it is a NaN or any float that is at most 1.
Undefined == {NaN, NegInf, Fin(-1, 1), Fin(0, 1), Fin(1, 1)}

\* The outcomes to choose from at time t: all of them where the fraction
\* is 0/0, and a single unused one elsewhere.
UndefinedAt(t, startTime, duration) ==
    IF duration = 0 /\ t = startTime THEN Undefined ELSE {NaN}

\* Mutant: the fraction is not clamped to 1.
per_noClamp(t, startTime, duration, u) ==
    IF duration = 0
    THEN IF t > startTime THEN Fin(1, 1) ELSE IF t < startTime THEN NegInf ELSE u
    ELSE Fin(t - startTime, duration)

\* min((time - startTime) / duration, 1.0f); a non-zero float divided by
\* zero is the infinity of its sign.
per(t, startTime, duration, u) ==
    IF duration = 0
    THEN IF t > startTime THEN Fin(1, 1) ELSE IF t < startTime THEN NegInf ELSE u
    ELSE IF t - startTime > duration THEN Fin(1, 1) ELSE Fin(t - startTime, duration)

\* p * new + (1.0f - p) * old
mix(p, new, old) ==
    IF p.kind = "fin"
    THEN Fin(p.num * new + (p.den - p.num) * old, p.den)
    ELSE NonFinite

\* Mutant: the float is rounded to the nearest integer.
int_rounds(x) == (2 * x.num + x.den) \div (2 * x.den)

\* int(x) of a float x >= 0: truncation.
int(x) == x.num \div x.den

Vec4Zero == [x |-> Fin(0, 1), y |-> Fin(0, 1), z |-> 0, w |-> 0]

\* One component of transform * vec4(curPosition, 0, 1) * vec4(vec3(2), 1)
\* for a transform that scales by s and translates by d.
placed(v, s, d) ==
    IF v.kind = "fin" THEN Fin(2 * (s * v.num + d * v.den), v.den) ELSE NonFinite

\* main() of the vertex shader; uPos and uExists resolve the two fractions
\* where the shader leaves them undefined.  charCoordOut copies charCoord
\* and is left out.
main(g, t, tr, bound, uPos, uExists) ==
    LET positionPer == per(t, g.positionStartTime, g.positionDuration, uPos)
        curPosition == [c \in 1..2 |-> mix(positionPer, g.position[c], g.positionOld[c])]
        existsPer == per(t, g.existsStartTime, g.existsDuration, uExists)
        curExists == mix(existsPer, g.exists, g.existsOld)
    IN [ran |-> TRUE,
        curPosition |-> curPosition,
        curExists |-> curExists,
        gl_Position |->
            IF bound = int(g.textureIndex)
            THEN [x |-> placed(curPosition[1], tr.s, tr.dx),
                  y |-> placed(curPosition[2], tr.s, tr.dy),
                  z |-> 0, w |-> 1]
            ELSE Vec4Zero]

NoOutput ==
    [ran |-> FALSE, curPosition |-> <<Fin(0, 1), Fin(0, 1)>>, curExists |-> Fin(0, 1),
     gl_Position |-> Vec4Zero]

Points == {<<0, 0>>, <<2, 1>>}

\* The instance attributes of a glyph vertex; its texture page is a float.
Glyphs ==
    [position : Points, positionOld : Points,
     positionStartTime : 0..MaxStart, positionDuration : 0..MaxDuration,
     exists : {0, 1}, existsOld : {0, 1},
     existsStartTime : 0..MaxStart, existsDuration : 0..MaxDuration,
     textureIndex : {Fin(h, 2) : h \in 0..(2 * NumPages - 1)}]

Transforms == {[s |-> 1, dx |-> 0, dy |-> 0], [s |-> 2, dx |-> 1, dy |-> -1]}

\* A frame starts: the time and transform uniforms are set.
BeginFrame(t, tr) ==
    /\ pass = NumPages
    /\ time' = t
    /\ transform' = tr
    /\ pass' = 0
    /\ drawnCount' = 0
    /\ out' = NoOutput
    /\ UNCHANGED <<glyph, boundTextureIndex>>

\* The draw call of one texture page: the page is bound and the vertex
\* shader runs on the glyph's vertex.
DrawPass(uPos, uExists) ==
    /\ pass < NumPages
    /\ boundTextureIndex' = pass
    /\ out' = main(glyph, time, transform, pass, uPos, uExists)
    /\ drawnCount' = drawnCount + (IF out'.gl_Position # Vec4Zero THEN 1 ELSE 0)
    /\ pass' = pass + 1
    /\ UNCHANGED <<glyph, time, transform>>

(***************************************************************************)
(* Specifications                                                          *)
(***************************************************************************)
HitLists == SeqsUpTo(LocalIds, MaxHits)

\* The selection tool on its own.
Init ==
    /\ selection = <<>>
    /\ highlight = <<>>
    /\ last = NoToolEvent
    /\ notification = "none"
    /\ sections = <<>>
    /\ nextID = 0
    /\ diagramType = "BDD"
    /\ showDDDMPInputModal = FALSE
    /\ showBuddyInputModal = FALSE
    /\ rendered = render(<<>>, <<>>)
    /\ lastCreate = NoCreate
    /\ glyph = CHOOSE g \in Glyphs : TRUE
    /\ time = 0
    /\ transform = CHOOSE tr \in Transforms : TRUE
    /\ boundTextureIndex = 0
    /\ out = NoOutput
    /\ pass = NumPages
    /\ drawnCount = 0

Next ==
    \E nodes \in HitLists, event \in Events :
        ToolEvent(nodes, event) /\ UNCHANGED <<uiVars, shaderVars>>

Spec == Init /\ [][Next]_vars

\* DiagramSummary, with the selection tool committing selections.
InitUI ==
    /\ selection = <<>>
    /\ highlight = <<>>
    /\ last = NoToolEvent
    /\ notification = "none"
    /\ sections = <<>>
    /\ nextID = 0
    /\ diagramType \in {"BDD", "MTBDD"}
    /\ showDDDMPInputModal = FALSE
    /\ showBuddyInputModal = FALSE
    /\ rendered = render(<<>>, <<>>)
    /\ lastCreate = NoCreate
    /\ glyph = CHOOSE g \in Glyphs : TRUE
    /\ time = 0
    /\ transform = CHOOSE tr \in Transforms : TRUE
    /\ boundTextureIndex = 0
    /\ out = NoOutput
    /\ pass = NumPages
    /\ drawnCount = 0

SpecUI == InitUI /\ [][UINext]_vars

\* The vertex shader over the frames and passes of the render loop.
InitShader ==
    /\ selection = <<>>
    /\ highlight = <<>>
    /\ last = NoToolEvent
    /\ notification = "none"
    /\ sections = <<>>
    /\ nextID = 0
    /\ diagramType = "BDD"
    /\ showDDDMPInputModal = FALSE
    /\ showBuddyInputModal = FALSE
    /\ rendered = render(<<>>, <<>>)
    /\ lastCreate = NoCreate
    /\ glyph \in Glyphs
    /\ time = 0
    /\ transform = CHOOSE tr \in Transforms : TRUE
    /\ boundTextureIndex = 0
    /\ out = NoOutput
    /\ pass = NumPages
    /\ drawnCount = 0

ShaderNext ==
    \/ \E t \in 0..MaxTime, tr \in Transforms :
          BeginFrame(t, tr) /\ UNCHANGED <<toolVars, uiVars>>
    \/ \E uPos \in UndefinedAt(time, glyph.positionStartTime, glyph.positionDuration),
          uExists \in UndefinedAt(time, glyph.existsStartTime, glyph.existsDuration) :
          DrawPass(uPos, uExists) /\ UNCHANGED <<toolVars, uiVars>>

SpecShader == InitShader /\ [][ShaderNext]_vars

(***************************************************************************)
(* Claims about SelectionToolState.apply, checked under Spec               *)
(***************************************************************************)
Range(seq) == {seq[i] : i \in DOMAIN seq}

Count(seq, x) == Cardinality({i \in DOMAIN seq : seq[i] = x})

Released == last.applied /\ ~last.threw /\ last.event.type = "release"

\* C1: after a release without ctrlKey (no DOM event, or ctrlKey false) the
\* shared selection is exactly the global ids local_nodes_to_sources
\* returned for the hit nodes, whatever was selected before.
C1_PlainReleaseReplaces ==
    (Released /\ last.event.event # "ctrl+mouse") => selection = last.hits.val

\* A plain release of one node over a larger selection has happened.
C1_Witness ==
    /\ Released /\ last.event.event = "none"
    /\ last.hits.val = <<2>> /\ selection = <<2>> /\ highlight = <<3, 2>>

\* C2 (as claimed): after a release with ctrlKey every id of the old
\* selection and of the hit list occurs in the committed selection exactly
\* once, and no other id occurs.
C2_AdditiveReleaseIsUnion ==
    [][(Released' /\ last'.event.event = "ctrl+mouse") =>
          /\ \A id \in Range(selection) \cup Range(last'.hits.val) :
                Count(selection', id) = 1
          /\ Range(selection') \subseteq Range(selection) \cup Range(last'.hits.val)]_vars

\* C3: a press or drag writes its hits to the highlight; the selection
\* changes only in a release, and every id a release adds is one it hit.
C3_OnlyReleaseChangesSelection ==
    [][/\ (last'.applied /\ ~last'.threw /\ last'.event.type # "release")
            => highlight' = last'.hits.val
       /\ selection' # selection =>
            /\ Released'
            /\ Range(selection') \subseteq Range(selection) \cup Range(last'.hits.val)]_vars

\* A drag has highlighted an id that is not selected.
C3_Witness ==
    /\ last.applied /\ last.event.type = "drag"
    /\ highlight = <<3>> /\ selection = <<2>>

C8_OneAtomicCommit ==
    /\ (last.applied /\ last.threw) => last.commits = <<>>
    /\ (last.applied /\ ~last.threw) =>
          /\ Len(last.commits) = 1
          /\ last.commits[1].target =
                (IF last.event.type = "release" THEN "selection" ELSE "highlight")
          /\ \A i \in DOMAIN last.commits :
                last.commits[i].value =
                    (IF last.commits[i].target = "selection" THEN selection ELSE highlight)

\* An additive release merged its hits into a non-empty selection.
C8_Witness ==
    /\ Released /\ last.event.event = "ctrl+mouse"
    /\ last.hits.val = <<2>> /\ selection = <<3, 2>>
    /\ Len(last.commits) = 1

(***************************************************************************)
(* Claims about DiagramSummary, checked under SpecUI                       *)
(***************************************************************************)
FileSections == {i \in DOMAIN sections : isFileSource(sections[i])}

IsValue(v, x) == v.kind = "fin" /\ v.num = x * v.den

IsPoint(v, pt) == IsValue(v[1], pt[1]) /\ IsValue(v[2], pt[2])

\* C4 (as claimed): for every duration >= 0 the sample at time = startTime
\* is the old value and the sample at any time >= startTime + duration is
\* the new value, for the position and for the existence.
C4_EndpointsForEveryDuration ==
    out.ran =>
        /\ time = glyph.positionStartTime => IsPoint(out.curPosition, glyph.positionOld)
        /\ time >= glyph.positionStartTime + glyph.positionDuration
              => IsPoint(out.curPosition, glyph.position)
        /\ time = glyph.existsStartTime => IsValue(out.curExists, glyph.existsOld)
        /\ time >= glyph.existsStartTime + glyph.existsDuration
              => IsValue(out.curExists, glyph.exists)

\* C4 (amended): for a duration > 0 the sample at time = startTime is the
\* old value; the sample at any time >= startTime + duration is the new
\* value unless duration = 0 and time = startTime.
C4_EndpointsExact ==
    out.ran =>
        /\ (time = glyph.positionStartTime /\ glyph.positionDuration > 0)
              => IsPoint(out.curPosition, glyph.positionOld)
        /\ (/\ time >= glyph.positionStartTime + glyph.positionDuration
            /\ (glyph.positionDuration > 0 \/ time > glyph.positionStartTime))
              => IsPoint(out.curPosition, glyph.position)
        /\ (time = glyph.existsStartTime /\ glyph.existsDuration > 0)
              => IsValue(out.curExists, glyph.existsOld)
        /\ (/\ time >= glyph.existsStartTime + glyph.existsDuration
            /\ (glyph.existsDuration > 0 \/ time > glyph.existsStartTime))
              => IsValue(out.curExists, glyph.exists)

\* The position was sampled after the end of its animation and the
\* existence at the start of its own, both between different values.
C4_Witness ==
    /\ out.ran
    /\ glyph.positionDuration > 0
    /\ time >= glyph.positionStartTime + glyph.positionDuration
    /\ glyph.position # glyph.positionOld
    /\ glyph.existsDuration > 0
    /\ time = glyph.existsStartTime
    /\ glyph.exists # glyph.existsOld

\* C5 (as claimed, for animations with a duration > 0): the fraction is
\* clamped at 0 as well, so at every time earlier than startTime the sample
\* is the old value.
C5_OldBeforeStart ==
    out.ran =>
        /\ (time < glyph.positionStartTime /\ glyph.positionDuration > 0)
              => IsPoint(out.curPosition, glyph.positionOld)
        /\ (time < glyph.existsStartTime /\ glyph.existsDuration > 0)
              => IsValue(out.curExists, glyph.existsOld)

\* C6: the vertex is emitted at its interpolated, transformed position
\* exactly when its texture index, truncated, is the bound page, and at the
\* constant zero vector otherwise; over the passes of a frame, one per
\* page, it is emitted in place exactly once.
C6_DrawnOnItsPageOnly ==
    /\ out.ran =>
          LET onPage ==
                  /\ boundTextureIndex * glyph.textureIndex.den <= glyph.textureIndex.num
                  /\ glyph.textureIndex.num < (boundTextureIndex + 1) * glyph.textureIndex.den
          IN IF onPage
             THEN out.gl_Position =
                      [x |-> placed(out.curPosition[1], transform.s, transform.dx),
                       y |-> placed(out.curPosition[2], transform.s, transform.dy),
                       z |-> 0, w |-> 1]
             ELSE out.gl_Position = Vec4Zero
    /\ (out.ran /\ pass = NumPages) => drawnCount = 1

\* A frame is complete for a glyph with a fractional texture index on the
\* first page: the last pass moved it to the zero vector.
C6_Witness ==
    /\ out.ran /\ pass = NumPages /\ drawnCount = 1
    /\ glyph.textureIndex = Fin(1, 2)
    /\ out.gl_Position = Vec4Zero

====
